---- MODULE Spec2Model ----
(***************************************************************************)
(* Authenticated BLE command protocol of the Waveshare ESP32 relay         *)
(* firmware: the payload normalizer, the freshness-bound HMAC              *)
(* authenticator and the length-based dispatcher of WS_Bluetooth.cpp, and  *)
(* the SNTP time acquisition routine of WS_ETH.cpp.                        *)
(*                                                                         *)
(* TLC integers are 32-bit signed, so a uint32_t is held as a pair         *)
(* <<high half, low half>> of 16-bit halves.  The wall clock (time_t) is   *)
(* held as an integer below 2^31, where the cast (uint32_t)time(nullptr)   *)
(* keeps the value.                                                        *)
(***************************************************************************)
EXTENDS Integers, Sequences, FiniteSets, TLC

(* ---------------- uint32_t arithmetic on <<hi, lo>> halves -------------- *)

Half == 2 ^ 16

\* (uint32_t)n for 0 <= n < 2^31
ToU32(n) == <<n \div Half, n % Half>>

U32Gt(a, b) == a[1] > b[1] \/ (a[1] = b[1] /\ a[2] > b[2])

U32Lt(a, b) == U32Gt(b, a)

\* a - b as the C unsigned subtraction computes it: modulo 2^32
U32Sub(a, b) ==
  LET borrow == IF a[2] < b[2] THEN 1 ELSE 0
  IN  <<(a[1] - b[1] - borrow + Half) % Half, (a[2] - b[2] + Half) % Half>>

\* a + b modulo 2^32
U32Add(a, b) ==
  LET lo == a[2] + b[2]
  IN  <<(a[1] + b[1] + (lo \div Half)) % Half, lo % Half>>

(* ---------------- SHA-256 and HMAC (mbedtls_md_hmac) ------------------ *)
RECURSIVE Xor3N(_, _, _, _)
Xor3N(a, b, c, n) ==
  IF n = 0 THEN 0
  ELSE ((a + b + c) % 2) + 2 * Xor3N(a \div 2, b \div 2, c \div 2, n - 1)

RECURSIVE ChN(_, _, _, _)
ChN(e, f, g, n) ==
  IF n = 0 THEN 0
  ELSE (IF e % 2 = 1 THEN f % 2 ELSE g % 2) + 2 * ChN(e \div 2, f \div 2, g \div 2, n - 1)

RECURSIVE MajN(_, _, _, _)
MajN(a, b, c, n) ==
  IF n = 0 THEN 0
  ELSE (((a % 2) + (b % 2) + (c % 2)) \div 2) + 2 * MajN(a \div 2, b \div 2, c \div 2, n - 1)

Pow2(n) == 2 ^ n

WXor3(x, y, z) == <<Xor3N(x[1], y[1], z[1], 16), Xor3N(x[2], y[2], z[2], 16)>>
WCh(e, f, g) == <<ChN(e[1], f[1], g[1], 16), ChN(e[2], f[2], g[2], 16)>>
WMaj(a, b, c) == <<MajN(a[1], b[1], c[1], 16), MajN(a[2], b[2], c[2], 16)>>

WAdd(x, y) == U32Add(x, y)

WShr(x, n) ==
  IF n >= 16 THEN <<0, x[1] \div Pow2(n - 16)>>
  ELSE <<x[1] \div Pow2(n), (x[2] \div Pow2(n)) + (x[1] % Pow2(n)) * Pow2(16 - n)>>

WRotr(x, n) ==
  LET y == IF n >= 16 THEN <<x[2], x[1]>> ELSE x
      m == IF n >= 16 THEN n - 16 ELSE n
  IN  <<(y[1] \div Pow2(m)) + (y[2] % Pow2(m)) * Pow2(16 - m),
        (y[2] \div Pow2(m)) + (y[1] % Pow2(m)) * Pow2(16 - m)>>

BigSigma0(x) == WXor3(WRotr(x, 2), WRotr(x, 13), WRotr(x, 22))
BigSigma1(x) == WXor3(WRotr(x, 6), WRotr(x, 11), WRotr(x, 25))
SmallSigma0(x) == WXor3(WRotr(x, 7), WRotr(x, 18), WShr(x, 3))
SmallSigma1(x) == WXor3(WRotr(x, 17), WRotr(x, 19), WShr(x, 10))

Sha256K ==
  <<
     <<17034, 12184>>, <<28983, 17553>>, <<46528, 64463>>, <<59829, 56229>>,
     <<14678, 49755>>, <<23025, 4593>>, <<37439, 33444>>, <<43804, 24277>>,
     <<55303, 43672>>, <<4739, 23297>>, <<9265, 34238>>, <<21772, 32195>>,
     <<29374, 23924>>, <<32990, 45566>>, <<39900, 1703>>, <<49563, 61812>>,
     <<58523, 27073>>, <<61374, 18310>>, <<4033, 40390>>, <<9228, 41420>>,
     <<11753, 11375>>, <<19060, 33962>>, <<23728, 43484>>, <<30457, 35034>>,
     <<38974, 20818>>, <<43057, 50797>>, <<45059, 10184>>, <<48985, 32711>>,
     <<50912, 3059>>, <<54695, 37191>>, <<1738, 25425>>, <<5161, 10599>>,
     <<10167, 2693>>, <<11803, 8504>>, <<19756, 28156>>, <<21304, 3347>>,
     <<25866, 29524>>, <<30314, 2747>>, <<33218, 51502>>, <<37490, 11397>>,
     <<41663, 59553>>, <<43034, 26187>>, <<49739, 35696>>, <<51052, 20899>>,
     <<53650, 59417>>, <<54937, 1572>>, <<62478, 13701>>, <<4202, 41072>>,
     <<6564, 49430>>, <<7735, 27656>>, <<10056, 30540>>, <<13488, 48309>>,
     <<14620, 3251>>, <<20184, 43594>>, <<23452, 51791>>, <<26670, 28659>>,
     <<29839, 33518>>, <<30885, 25455>>, <<33992, 30740>>, <<36039, 520>>,
     <<37054, 65530>>, <<42064, 27883>>, <<48889, 41975>>, <<50801, 30962>>
  >>

Sha256H0 ==
  <<
     <<27145, 58983>>, <<47975, 44677>>, <<15470, 62322>>, <<42319, 62778>>,
     <<20750, 21119>>, <<39685, 26764>>, <<8067, 55723>>, <<23520, 52505>>
  >>

RECURSIVE Sha256Schedule(_)
Sha256Schedule(w) ==
  IF Len(w) = 64 THEN w
  ELSE LET t == Len(w) + 1
           nw == WAdd(WAdd(SmallSigma1(w[t - 2]), w[t - 7]),
                      WAdd(SmallSigma0(w[t - 15]), w[t - 16]))
       IN  Sha256Schedule(Append(w, nw))

RECURSIVE Sha256Rounds(_, _, _)
Sha256Rounds(s, w, t) ==
  IF t > 64 \/ Len(s) # 8 THEN s
  ELSE LET t1 == WAdd(WAdd(WAdd(s[8], BigSigma1(s[5])), WAdd(WCh(s[5], s[6], s[7]), Sha256K[t])), w[t])
           t2 == WAdd(BigSigma0(s[1]), WMaj(s[1], s[2], s[3]))
       IN  Sha256Rounds(<<WAdd(t1, t2), s[1], s[2], s[3], WAdd(s[4], t1), s[5], s[6], s[7]>>, w, t + 1)

Sha256Compress(h, block) ==
  LET w == Sha256Schedule(block)
      s == Sha256Rounds(h, w, 1)
  IN  <<WAdd(h[1], s[1]), WAdd(h[2], s[2]), WAdd(h[3], s[3]), WAdd(h[4], s[4]),
        WAdd(h[5], s[5]), WAdd(h[6], s[6]), WAdd(h[7], s[7]), WAdd(h[8], s[8])>>

Zeros(n) == [i \in 1..n |-> 0]

Sha256Pad(msg) ==
  LET n == Len(msg)
      z == (119 - (n % 64)) % 64
      bits == n * 8
  IN  msg \o <<128>> \o Zeros(z) \o Zeros(4)
          \o <<(bits \div 16777216) % 256, (bits \div 65536) % 256, (bits \div 256) % 256, bits % 256>>

BlockWords(bytes, k) ==
  [i \in 1..16 |-> <<bytes[64 * k + 4 * i - 3] * 256 + bytes[64 * k + 4 * i - 2],
                     bytes[64 * k + 4 * i - 1] * 256 + bytes[64 * k + 4 * i]>>]

RECURSIVE Sha256Blocks(_, _, _)
Sha256Blocks(h, bytes, k) ==
  IF 64 * k >= Len(bytes) \/ Len(h) # 8 THEN h
  ELSE Sha256Blocks(Sha256Compress(h, BlockWords(bytes, k)), bytes, k + 1)

Sha256(msg) ==
  LET h == Sha256Blocks(Sha256H0, Sha256Pad(msg), 0)
  IN  [i \in 1..32 |-> LET w == h[((i - 1) \div 4) + 1]
                           half == IF ((i - 1) % 4) < 2 THEN w[1] ELSE w[2]
                       IN  IF (i - 1) % 2 = 0 THEN half \div 256 ELSE half % 256]

XorByte(a, b) == Xor3N(a, b, 0, 8)

RECURSIVE OrN(_, _, _)
OrN(a, b, n) ==
  IF n = 0 THEN 0
  ELSE (IF a % 2 = 1 \/ b % 2 = 1 THEN 1 ELSE 0) + 2 * OrN(a \div 2, b \div 2, n - 1)

OrByte(a, b) == OrN(a, b, 8)

HmacSha256(key, msg) ==
  LET k0 == key \o Zeros(64 - Len(key))
      ipad == [i \in 1..64 |-> XorByte(k0[i], 54)]
      opad == [i \in 1..64 |-> XorByte(k0[i], 92)]
  IN  Sha256(opad \o Sha256(ipad \o msg))

(* ---------------- program constants ------------------------------------ *)

\* mutant: the key with its terminating NUL, SECRET_LEN = sizeof(SECRET_KEY)
SECRET_KEY_WithNul ==
  <<107, 101, 121, 45, 102, 115, 97, 45, 114, 101, 108, 97, 121, 0>>

\* const uint8_t SECRET_KEY[] = "key-fsa-relay"; SECRET_LEN = sizeof - 1
SECRET_KEY == <<107, 101, 121, 45, 102, 115, 97, 45, 114, 101, 108, 97, 121>>

SECRET_LEN == Len(SECRET_KEY)

\* systemUtcIsValid: now > 1700000000
TrustEpoch == 1700000000

\* Acquisition_time: now > 1609459200
SanityEpoch == 1609459200

\* if (diff > 120)
FreshWindow == 120

\* for (int i = 0; i < 12; i++)
TagLen == 12

\* const uint32_t timeoutMs = 20000
timeoutMs == 20000

\* delay(500)
DelayMs == 500

(* ---------------- auth helpers (WS_Bluetooth.cpp) ---------------------- *)

\* mutant: the threshold of Acquisition_time used for the trust test
systemUtcIsValid_Sanity(now) == now > SanityEpoch

\* mutant: any clock past power-on zero counts as valid
systemUtcIsValid_NonZero(now) == now > 0

\* static bool systemUtcIsValid(): the test applied to the value time(nullptr) returned
systemUtcIsValid(now) == now > TrustEpoch

\* static uint32_t sysUtcSecondsNow(): the cast of the value time(nullptr) returned
sysUtcSecondsNow(now) == ToU32(now)

\* mutant: no branch for 'a'..'f'
hexNibble_UpperOnly(c) ==
  IF c >= 48 /\ c <= 57 THEN c - 48
  ELSE IF c >= 65 /\ c <= 70 THEN c - 65 + 10
  ELSE -1

\* the lambda hexNibble of normalizeAuthPayload, on an ASCII code
hexNibble(c) ==
  IF c >= 48 /\ c <= 57 THEN c - 48
  ELSE IF c >= 65 /\ c <= 70 THEN c - 65 + 10
  ELSE IF c >= 97 /\ c <= 102 THEN c - 97 + 10
  ELSE -1

\* mutant: if (hi < 0) return false
RECURSIVE HexDecodeFrom_HiOnly(_, _, _)
HexDecodeFrom_HiOnly(in, i, out) ==
  IF i >= 17 THEN [ok |-> TRUE, out17 |-> out]
  ELSE LET hi == hexNibble(in[i * 2 + 1])
           lo == hexNibble(in[i * 2 + 2])
       IN  IF hi < 0 THEN [ok |-> FALSE, out17 |-> out]
           ELSE HexDecodeFrom_HiOnly(in, i + 1, Append(out, (hi * 16 + lo) % 256))

\* the decoding loop of case B: the bytes written to out17 before position i
\* fails, and whether every position decoded
RECURSIVE HexDecodeFrom(_, _, _)
HexDecodeFrom(in, i, out) ==
  IF i >= 17 THEN [ok |-> TRUE, out17 |-> out]
  ELSE LET hi == hexNibble(in[i * 2 + 1])
           lo == hexNibble(in[i * 2 + 2])
       IN  IF hi < 0 \/ lo < 0 THEN [ok |-> FALSE, out17 |-> out]
           ELSE HexDecodeFrom(in, i + 1, Append(out, (hi * 16 + lo) % 256))

\* static bool normalizeAuthPayload(in, inLen, out17)
normalizeAuthPayload(in) ==
  IF Len(in) = 17 THEN [ok |-> TRUE, out17 |-> in]
  ELSE IF Len(in) = 34 THEN HexDecodeFrom(in, 0, <<>>)
  ELSE [ok |-> FALSE, out17 |-> <<>>]

\* epoch = bin[1]<<24 | bin[2]<<16 | bin[3]<<8 | bin[4]  (0-based in the source)
EpochOf(bin) == <<bin[2] * 256 + bin[3], bin[4] * 256 + bin[5]>>

\* mutant: the smaller of the two differences modulo 2^32
EpochDiff_Circular(now, epoch) ==
  IF U32Lt(U32Sub(now, epoch), U32Sub(epoch, now)) THEN U32Sub(now, epoch) ELSE U32Sub(epoch, now)

\* diff = (now > epoch) ? (now - epoch) : (epoch - now)
EpochDiff(now, epoch) ==
  IF U32Gt(now, epoch) THEN U32Sub(now, epoch) ELSE U32Sub(epoch, now)

\* mutant: if (diff >= 120)
FreshnessPass_Strict(now, epoch) ==
  U32Lt(IF U32Gt(now, epoch) THEN U32Sub(now, epoch) ELSE U32Sub(epoch, now), <<0, FreshWindow>>)

\* mutant: if (diff > 121)
FreshnessPass_Wide(now, epoch) ==
  ~U32Gt(IF U32Gt(now, epoch) THEN U32Sub(now, epoch) ELSE U32Sub(epoch, now), <<0, FreshWindow + 1>>)

\* the gate: the frame goes on when !(diff > 120)
FreshnessPass(now, epoch) == ~U32Gt(EpochDiff(now, epoch), <<0, FreshWindow>>)

\* msg[0] = channel; memcpy(msg + 1, bin + 1, 4)
AuthMsg(bin) == <<bin[1]>> \o SubSeq(bin, 2, 5)

\* mutant: the loop returns at the first differing byte
RECURSIVE CompareFrom_EarlyExit(_, _, _, _)
CompareFrom_EarlyExit(fullMac, bin, i, mismatch) ==
  IF i >= TagLen \/ mismatch # 0 THEN [mismatch |-> mismatch, steps |-> i]
  ELSE CompareFrom_EarlyExit(fullMac, bin, i + 1, XorByte(fullMac[i + 1], bin[5 + i + 1]))

\* the comparison loop: mismatch |= calc ^ recv over i = 0..11; steps counts the
\* positions examined
RECURSIVE CompareFrom(_, _, _, _)
CompareFrom(fullMac, bin, i, mismatch) ==
  IF i >= TagLen THEN [mismatch |-> mismatch, steps |-> i]
  ELSE LET x == XorByte(fullMac[i + 1], bin[5 + i + 1])
       IN  CompareFrom(fullMac, bin, i + 1, OrByte(mismatch, x))

\* uint8_t cmd = (uint8_t)(channel + '0')
RelayCmd(channel) == (channel + 48) % 256

\* v/16*10 + v%16 of BLE_Set_RTC_Event
Bcd(v) == (v \div 16) * 10 + (v % 16)

\* void BLE_Set_RTC_Event(uint8_t* valueBytes): the timer call it makes, if any
BLE_Set_RTC_Event(b) ==
  IF b[1] = 161 /\ b[7] = 170 /\ b[14] = 255
  THEN LET year == Bcd(b[2]) * 100 + Bcd(b[3])
           when == <<year, Bcd(b[4]), Bcd(b[5]), Bcd(b[6]), Bcd(b[8]), Bcd(b[9]), Bcd(b[10])>>
       IN  IF b[12] # 0
           THEN <<[fn |-> "TimerEvent_CHxs_Set", arg |-> when \o <<b[11], b[13]>>, mode |-> ""]>>
           ELSE <<[fn |-> "TimerEvent_CHx_Set",
                   arg |-> when \o <<b[11] \div 16, IF b[11] % 16 # 0 THEN 1 ELSE 0, b[13]>>,
                   mode |-> ""]>>
  ELSE <<>>

\* mutant: the flag test is missing
handleBle2Byte_NoFlag(b, extensionEnable) ==
  IF b[1] # 6 THEN <<>> ELSE <<[fn |-> "RS485_Analysis", arg |-> b, mode |-> ""]>>

\* mutant: the opcode test is missing
handleBle2Byte_NoOpcode(b, extensionEnable) ==
  IF ~extensionEnable THEN <<>> ELSE <<[fn |-> "RS485_Analysis", arg |-> b, mode |-> ""]>>

\* static void handleBle2Byte(const uint8_t* b): the external calls it makes
handleBle2Byte(b, extensionEnable) ==
  IF ~extensionEnable THEN <<>>
  ELSE IF b[1] # 6 THEN <<>>
  ELSE <<[fn |-> "RS485_Analysis", arg |-> b, mode |-> ""]>>

\* static void handleBleRtc14(const uint8_t* b): the calls it makes
handleBleRtc14(b, rtcEventEnable) ==
  IF ~rtcEventEnable THEN <<>>
  ELSE <<[fn |-> "BLE_Set_RTC_Event", arg |-> b, mode |-> ""]>> \o BLE_Set_RTC_Event(b)

\* mutant: else if (len >= 17)
Route_AtLeast17(len) ==
  IF len = 2 THEN {"ble2"}
  ELSE IF len = 14 THEN {"rtc14"}
  ELSE IF len >= 17 THEN {"auth"}
  ELSE {"reject"}

\* the if / else if chain of MyRXCallback::onWrite, as the set of branches entered
Route(len) ==
  IF len = 2 THEN {"ble2"}
  ELSE IF len = 14 THEN {"rtc14"}
  ELSE IF len = 17 \/ len = 34 THEN {"auth"}
  ELSE {"reject"}

(* ---------------- gmtime_r and the RTC record (WS_ETH.cpp) ------------- *)

\* gmtime_r(&now, &utc) and the copy into datetime_t t
Gmtime(now) ==
  LET days == now \div 86400
      secs == now % 86400
      z    == days + 719468
      era  == z \div 146097
      doe  == z - era * 146097
      yoe  == (doe - (doe \div 1460) + (doe \div 36524) - (doe \div 146096)) \div 365
      doy  == doe - (365 * yoe + (yoe \div 4) - (yoe \div 100))
      mp   == (5 * doy + 2) \div 153
      d    == doy - ((153 * mp + 2) \div 5) + 1
      m    == IF mp < 10 THEN mp + 3 ELSE mp - 9
      y    == yoe + era * 400 + (IF m <= 2 THEN 1 ELSE 0)
  IN  [year |-> y, month |-> m, day |-> d, dotw |-> (days + 4) % 7,
       hour |-> secs \div 3600, minute |-> (secs % 3600) \div 60, second |-> secs % 60]

\* the datetime_t before any write
NoTime == [year |-> 0, month |-> 0, day |-> 0, dotw |-> 0, hour |-> 0, minute |-> 0, second |-> 0]

\* mutant: while (millis() < start + timeoutMs)
BudgetLeft_Deadline(ms, startMs) == U32Lt(ms, U32Add(startMs, ToU32(timeoutMs)))

\* while (millis() - start < timeoutMs)
BudgetLeft(ms, startMs) == U32Lt(U32Sub(ms, startMs), ToU32(timeoutMs))

\* mutant: if (now >= 1609459200)
EpochSane_Ge(now) == now >= SanityEpoch

\* if (now > 1609459200)
EpochSane(now) == now > SanityEpoch

(* ---------------- inputs of the bounded model -------------------------- *)

\* number of Acquisition_time calls (ETH_GOT_IP events) in a run
MaxCalls == 2

\* the message bytes of the spec's test vector, 67 B5 A2 30: epoch 1739956784
VectorEpochBytes == <<103, 181, 162, 48>>

\* 1650000000 = 62 59 00 80: after the acquisition threshold, before the trust threshold
GapEpochBytes == <<98, 89, 0, 128>>

BytesToInt(b) == ((b[1] * 256 + b[2]) * 256 + b[3]) * 256 + b[4]

VectorEpoch == BytesToInt(VectorEpochBytes)

GapEpoch == BytesToInt(GapEpochBytes)

HexDigit(n, upper) == IF n < 10 THEN 48 + n ELSE IF upper THEN 55 + n ELSE 87 + n

\* 34 ASCII hex characters for a 17-byte record; hiUp / loUp give the case of each digit
HexEncode(rec, hiUp, loUp) ==
  [k \in 1..(2 * Len(rec)) |->
     LET byte == rec[(k + 1) \div 2]
     IN  IF k % 2 = 1 THEN HexDigit(byte \div 16, hiUp) ELSE HexDigit(byte % 16, loUp)]

\* channel 1, the vector epoch, and the tag a sender holding the key computes
F_Good ==
  <<1>> \o VectorEpochBytes \o <<157, 181, 172, 173, 83, 107, 122, 21, 181, 60, 57, 34>>

F_GoodGap ==
  <<1>> \o GapEpochBytes \o <<12, 113, 97, 243, 49, 239, 165, 10, 121, 11, 80, 161>>

F_GoodCh2 ==
  <<2>> \o VectorEpochBytes \o <<93, 143, 105, 74, 138, 202, 115, 241, 95, 194, 91, 14>>

F_TagAA == <<1>> \o VectorEpochBytes \o [i \in 1..TagLen |-> 170]

F_Bad0 == [F_Good EXCEPT ![6] = XorByte(@, 1)]

F_Bad11 == [F_Good EXCEPT ![17] = XorByte(@, 128)]

F_HexUpper == HexEncode(F_Good, TRUE, TRUE)

F_HexLower == HexEncode(F_Good, FALSE, FALSE)

F_HexMixed == HexEncode(F_Good, TRUE, FALSE)

F_HexBadFirst == [F_HexUpper EXCEPT ![1] = 71]

F_HexBadLast == [F_HexLower EXCEPT ![34] = 103]

F_Rs485 == <<6, 1>>

F_Rs485BadOp == <<7, 1>>

F_Rtc14 == <<161, 32, 38, 17, 2, 1, 170, 18, 48, 0, 17, 0, 0, 255>>

F_Rtc14BadStart == [F_Rtc14 EXCEPT ![1] = 0]

\* frames of the time acquisition / authentication interleavings
CoreFrames == {F_Good, F_GoodGap, F_TagAA}

AuthFrames ==
  {F_Good, F_GoodGap, F_GoodCh2, F_TagAA, F_Bad0, F_Bad11,
   F_HexUpper, F_HexLower, F_HexMixed, F_HexBadFirst, F_HexBadLast}

\* every frame shape the dispatcher sees: the four routes and the lengths around them
AllFrames ==
  AuthFrames \cup {F_Rs485, F_Rs485BadOp, F_Rtc14, F_Rtc14BadStart}
    \cup {<<>>, <<6>>, SubSeq(F_Good, 1, 16), F_Good \o <<0>>, F_HexUpper \o <<48>>}

\* wall clock values the SNTP sync or the passing of time produce
CoreClock == {SanityEpoch, GapEpoch, VectorEpoch}

ClockValues ==
  {GapEpoch, TrustEpoch, VectorEpoch - FreshWindow - 1, VectorEpoch - FreshWindow,
   VectorEpoch, VectorEpoch + FreshWindow, VectorEpoch + FreshWindow + 1}

\* millis() when an ETH_GOT_IP event arrives: soon after boot, and 10 s before the
\* tick counter wraps
StartMillis == {<<0, 3000>>, <<65535, 55536>>}

\* the 5-byte messages the frames carry
MacMsgs == {<<1>> \o VectorEpochBytes, <<1>> \o GapEpochBytes, <<2>> \o VectorEpochBytes}

\* HMAC-SHA256 under SECRET_KEY of each message, as pairs <<message, digest>>,
\* computed
MacComputed == {<<m, HmacSha256(SECRET_KEY, m)>> : m \in MacMsgs}

\* the same pairs written out, the digests being the 32 bytes mbedtls returns
MacTable ==
  {<<<<1, 103, 181, 162, 48>>,
     <<157, 181, 172, 173, 83, 107, 122, 21, 181, 60, 57, 34, 46, 44, 145, 68,
       99, 222, 149, 219, 108, 1, 3, 185, 71, 175, 208, 165, 153, 169, 72, 51>>>>,
   <<<<1, 98, 89, 0, 128>>,
     <<12, 113, 97, 243, 49, 239, 165, 10, 121, 11, 80, 161, 125, 159, 235, 195,
       168, 149, 151, 130, 145, 90, 21, 98, 114, 112, 85, 202, 171, 248, 9, 108>>>>,
   <<<<2, 103, 181, 162, 48>>,
     <<93, 143, 105, 74, 138, 202, 115, 241, 95, 194, 91, 14, 254, 162, 192, 43,
       200, 188, 247, 243, 177, 201, 3, 171, 183, 184, 164, 72, 207, 161, 87, 35>>>>}

(* ---------------- state ------------------------------------------------ *)

VARIABLES
  wallClock,          \* what time(nullptr) returns
  sntp_initialized,   \* static bool sntp_initialized of Acquisition_time
  sntpStarts,         \* calls of configTime made so far
  tz,                 \* the TZ environment variable
  acqPc,              \* Acquisition_time: "idle", "loop" (at the first loop test), "delay"
  start,              \* uint32_t start
  ms,                 \* the value the last millis() call returned
  datetime,           \* the global datetime
  rtc,                \* the PCF85063 registers as PCF85063_Set_All left them
  rtcWrites,          \* calls of PCF85063_Set_All made so far
  acq,                \* history of the Acquisition_time calls; polls counts the delay(500)
                      \* calls of the running call, budgetUsed the milliseconds of delay
                      \* behind the last call that returned false
  Extension_Enable,   \* feature flag of the 2-byte route
  RTC_Event_Enable,   \* feature flag of the 14-byte route
  blePc,              \* onWrite: "idle", "auth" (between the two clock reads)
  rxValue,            \* the value of the RX characteristic
  bin17,              \* uint8_t bin[17] of handleBleAuth17or34
  last,               \* the frame being handled, or the last one handled
  captured,           \* an accepted frame an observer recorded, with the clock it was accepted at
  macCache,           \* the digests mbedtls computes, kept once computed
  gNow,               \* freshness gate taken alone: the clock reading
  gEpoch,             \* freshness gate taken alone: the epoch
  gPass               \* freshness gate taken alone: the outcome

vars ==
  <<wallClock, sntp_initialized, sntpStarts, tz, acqPc, start, ms, datetime, rtc, rtcWrites,
    acq, Extension_Enable, RTC_Event_Enable, blePc, rxValue, bin17, last, captured,
    macCache, gNow, gEpoch, gPass>>

acqVars == <<sntp_initialized, sntpStarts, tz, acqPc, start, ms, datetime, rtc, rtcWrites>>

bleVars == <<blePc, rxValue, bin17, last>>

flagVars == <<Extension_Enable, RTC_Event_Enable>>

gateVars == <<gNow, gEpoch, gPass>>

NoU32 == <<-1, -1>>

NoTick == <<0, 0>>

\* pRxCharacteristic->setValue("Successfully Connect To ESP32-S3-POE-ETH-8DI-8RO")
InitialRxValue ==
  <<83, 117, 99, 99, 101, 115, 115, 102, 117, 108, 108, 121, 32, 67, 111, 110, 110, 101, 99, 116, 32, 84, 111, 32, 69, 83, 80, 51, 50, 45, 83, 51, 45, 80, 79, 69, 45, 69, 84, 72, 45, 56, 68, 73, 45, 56, 82, 79>>

NoLast ==
  [raw |-> <<>>, route |-> {}, result |-> "none", normOk |-> FALSE, trustClock |-> -1,
   now |-> NoU32, cmpSteps |-> 0, trace |-> <<>>, calls |-> <<>>, held |-> FALSE]

NoCapture == [raw |-> <<>>, now |-> NoU32]

NoAcq ==
  [calls |-> 0, trueReturns |-> 0, falseReturns |-> 0, ret |-> "none", everAbove |-> FALSE,
   writesAtStart |-> 0, trustAtStart |-> FALSE, trustAtReturn |-> FALSE, okSince |-> FALSE,
   polls |-> 0, budgetUsed |-> -1]

\* the state after setup(): nothing received, no ETH_GOT_IP event yet, clock at power-on
Boot ==
  /\ wallClock = 0
  /\ sntp_initialized = FALSE
  /\ sntpStarts = 0
  /\ tz = "unset"
  /\ acqPc = "idle"
  /\ start = NoTick
  /\ ms = NoTick
  /\ datetime = NoTime
  /\ rtc = NoTime
  /\ rtcWrites = 0
  /\ acq = NoAcq
  /\ blePc = "idle"
  /\ rxValue = InitialRxValue
  /\ bin17 = <<>>
  /\ last = NoLast
  /\ captured = NoCapture
  /\ macCache = MacTable

\* the freshness gate taken alone is not in use
GateIdle ==
  /\ gNow = NoU32
  /\ gEpoch = NoU32
  /\ gPass = "unset"

Init ==
  /\ Boot
  /\ GateIdle
  /\ Extension_Enable = TRUE
  /\ RTC_Event_Enable = TRUE

(* ---------------- Acquisition_time (WS_ETH.cpp) ------------------------ *)

\* mutant: configTime on every call
AcqCall_NoGuard ==
  /\ acqPc = "idle"
  /\ acq.calls < MaxCalls
  /\ tz' = "UTC0"
  /\ sntp_initialized' = TRUE
  /\ sntpStarts' = sntpStarts + 1
  /\ \E m \in StartMillis : start' = m /\ ms' = m
  /\ acqPc' = "loop"
  /\ acq' = [acq EXCEPT !.calls = @ + 1, !.ret = "none", !.polls = 0,
                        !.everAbove = wallClock > SanityEpoch,
                        !.writesAtStart = rtcWrites,
                        !.trustAtStart = wallClock > TrustEpoch]
  /\ UNCHANGED <<wallClock, datetime, rtc, rtcWrites, captured, macCache>>
  /\ UNCHANGED <<flagVars, bleVars, gateVars>>

\* entry: setenv/tzset, configTime once, start = millis()
AcqCall ==
  /\ acqPc = "idle"
  /\ acq.calls < MaxCalls
  /\ tz' = "UTC0"
  /\ sntp_initialized' = TRUE
  /\ sntpStarts' = IF sntp_initialized THEN sntpStarts ELSE sntpStarts + 1
  /\ \E m \in StartMillis : start' = m /\ ms' = m
  /\ acqPc' = "loop"
  /\ acq' = [acq EXCEPT !.calls = @ + 1, !.ret = "none", !.polls = 0,
                        !.everAbove = wallClock > SanityEpoch,
                        !.writesAtStart = rtcWrites,
                        !.trustAtStart = wallClock > TrustEpoch]
  /\ UNCHANGED <<wallClock, datetime, rtc, rtcWrites, captured, macCache>>
  /\ UNCHANGED <<flagVars, bleVars, gateVars>>

\* the delay(500) calls of one call are counted up to one more than fit in the budget
PollCap == (timeoutMs \div DelayMs) + 1

\* mutant: the tick counter stands still during delay(500)
Woke_Frozen == ms

\* millis() at the loop test: delay(500) has ended when the call was sleeping
Woke == IF acqPc = "delay" THEN U32Add(ms, ToU32(DelayMs)) ELSE ms

\* mutant: time(nullptr) is read again for gmtime_r, after the sanity test
AcqSuccess_Reread ==
  /\ acqPc \in {"loop", "delay"}
  /\ BudgetLeft(Woke, start)
  /\ EpochSane(wallClock)
  /\ \E v \in CoreClock :
       /\ wallClock' = v
       /\ rtc' = Gmtime(v)
       /\ datetime' = Gmtime(v)
  /\ rtcWrites' = rtcWrites + 1
  /\ acqPc' = "idle"
  /\ start' = NoTick
  /\ ms' = NoTick
  /\ acq' = [acq EXCEPT !.ret = "true", !.trueReturns = @ + 1, !.polls = 0,
                        !.trustAtReturn = wallClock > TrustEpoch, !.okSince = TRUE]
  /\ UNCHANGED <<sntp_initialized, sntpStarts, tz, captured, macCache>>
  /\ UNCHANGED <<flagVars, bleVars, gateVars>>

\* the loop test passes, the sample is sane: write the RTC and return true
AcqSuccess ==
  /\ acqPc \in {"loop", "delay"}
  /\ BudgetLeft(Woke, start)
  /\ EpochSane(wallClock)
  /\ rtc' = Gmtime(wallClock)
  /\ datetime' = Gmtime(wallClock)
  /\ rtcWrites' = rtcWrites + 1
  /\ acqPc' = "idle"
  /\ start' = NoTick
  /\ ms' = NoTick
  /\ acq' = [acq EXCEPT !.ret = "true", !.trueReturns = @ + 1, !.polls = 0,
                        !.trustAtReturn = wallClock > TrustEpoch, !.okSince = TRUE]
  /\ UNCHANGED <<wallClock, sntp_initialized, sntpStarts, tz, captured, macCache>>
  /\ UNCHANGED <<flagVars, bleVars, gateVars>>

\* the loop test passes, the sample is not sane: delay(500)
AcqSleep ==
  /\ acqPc \in {"loop", "delay"}
  /\ BudgetLeft(Woke, start)
  /\ ~EpochSane(wallClock)
  /\ acqPc' = "delay"
  /\ ms' = Woke
  /\ acq' = [acq EXCEPT !.polls = IF @ < PollCap THEN @ + 1 ELSE @]
  /\ UNCHANGED <<wallClock, sntp_initialized, sntpStarts, tz, start, datetime, rtc, rtcWrites,
                 captured, macCache>>
  /\ UNCHANGED <<flagVars, bleVars, gateVars>>

\* mutant: one more look at the clock after the loop, writing the RTC when it is sane
AcqTimeout_LastLook ==
  /\ acqPc \in {"loop", "delay"}
  /\ ~BudgetLeft(Woke, start)
  /\ acqPc' = "idle"
  /\ start' = NoTick
  /\ ms' = NoTick
  /\ rtc' = (IF EpochSane(wallClock) THEN Gmtime(wallClock) ELSE rtc)
  /\ datetime' = (IF EpochSane(wallClock) THEN Gmtime(wallClock) ELSE datetime)
  /\ rtcWrites' = (IF EpochSane(wallClock) THEN rtcWrites + 1 ELSE rtcWrites)
  /\ acq' = [acq EXCEPT !.ret = "false", !.falseReturns = @ + 1, !.polls = 0,
                        !.budgetUsed = DelayMs * acq.polls,
                        !.trustAtReturn = wallClock > TrustEpoch]
  /\ UNCHANGED <<wallClock, sntp_initialized, sntpStarts, tz, captured, macCache>>
  /\ UNCHANGED <<flagVars, bleVars, gateVars>>

\* the loop test fails: return false
AcqTimeout ==
  /\ acqPc \in {"loop", "delay"}
  /\ ~BudgetLeft(Woke, start)
  /\ acqPc' = "idle"
  /\ start' = NoTick
  /\ ms' = NoTick
  /\ acq' = [acq EXCEPT !.ret = "false", !.falseReturns = @ + 1, !.polls = 0,
                        !.budgetUsed = DelayMs * acq.polls,
                        !.trustAtReturn = wallClock > TrustEpoch]
  /\ UNCHANGED <<wallClock, sntp_initialized, sntpStarts, tz, datetime, rtc, rtcWrites,
                 captured, macCache>>
  /\ UNCHANGED <<flagVars, bleVars, gateVars>>

\* the SNTP client started by configTime sets or steps the system clock, or the
\* clock counts on
ClockUpdate(v) ==
  /\ sntp_initialized
  /\ v # wallClock
  /\ wallClock' = v
  /\ acq' = [acq EXCEPT !.everAbove = @ \/ (acqPc # "idle" /\ v > SanityEpoch),
                        !.okSince = @ /\ v > wallClock]
  /\ UNCHANGED <<acqVars, captured, macCache>>
  /\ UNCHANGED <<flagVars, bleVars, gateVars>>

(* ---------------- MyRXCallback::onWrite (WS_Bluetooth.cpp) ------------- *)

\* mbedtls_md_hmac_starts / update / finish with SECRET_KEY over msg
FullMac(msg) ==
  IF \E p \in macCache : p[1] = msg
  THEN (CHOOSE p \in macCache : p[1] = msg)[2]
  ELSE HmacSha256(SECRET_KEY, msg)

Call(fn, arg, mode) == [fn |-> fn, arg |-> arg, mode |-> mode]

\* handleBleAuth17or34 up to the test of systemUtcIsValid(), which reads the clock
AuthEnter(raw, clock, held) ==
  LET norm == normalizeAuthPayload(raw)
      base == [NoLast EXCEPT !.raw = raw, !.held = held]
  IN  IF ~norm.ok
      THEN [base EXCEPT !.result = "DecodeError", !.trace = <<"normalize">>]
      ELSE IF ~systemUtcIsValid(clock)
      THEN [base EXCEPT !.result = "ClockUntrusted", !.normOk = TRUE, !.trustClock = clock,
                        !.trace = <<"normalize", "time">>]
      ELSE [base EXCEPT !.result = "pending", !.normOk = TRUE, !.trustClock = clock,
                        !.trace = <<"normalize", "time">>]

\* mutant: the digest is computed before the freshness test
AuthRest_MacFirst(rec, bin, clock, held) ==
  LET now   == sysUtcSecondsNow(clock)
      epoch == EpochOf(bin)
      mac   == FullMac(AuthMsg(bin))
      cmp   == CompareFrom(mac, bin, 0, 0)
      r1    == [rec EXCEPT !.now = now, !.trace = @ \o <<"time", "hmac">>, !.held = @ /\ held]
  IN  IF ~FreshnessPass(now, epoch)
      THEN [r1 EXCEPT !.result = "StaleOrFutureTimestamp"]
      ELSE IF cmp.mismatch # 0
      THEN [r1 EXCEPT !.result = "TagMismatch", !.cmpSteps = cmp.steps,
                      !.trace = @ \o <<"compare">>]
      ELSE [r1 EXCEPT !.result = "Accepted", !.cmpSteps = cmp.steps,
                      !.trace = @ \o <<"compare", "Relay_Analysis">>,
                      !.calls = @ \o <<Call("Relay_Analysis", <<RelayCmd(bin[1])>>, "Bluetooth_Mode")>>]

\* mutant: a frame seen accepted before is refused
AuthRest_ReplayCache(rec, bin, clock, held) ==
  LET now   == sysUtcSecondsNow(clock)
      epoch == EpochOf(bin)
      mac   == FullMac(AuthMsg(bin))
      cmp   == CompareFrom(mac, bin, 0, 0)
      r1    == [rec EXCEPT !.now = now, !.trace = @ \o <<"time">>, !.held = @ /\ held]
  IN  IF ~FreshnessPass(now, epoch)
      THEN [r1 EXCEPT !.result = "StaleOrFutureTimestamp"]
      ELSE IF cmp.mismatch # 0 \/ captured.raw = rec.raw
      THEN [r1 EXCEPT !.result = "TagMismatch", !.cmpSteps = cmp.steps,
                      !.trace = @ \o <<"hmac", "compare">>]
      ELSE [r1 EXCEPT !.result = "Accepted", !.cmpSteps = cmp.steps,
                      !.trace = @ \o <<"hmac", "compare", "Relay_Analysis">>,
                      !.calls = @ \o <<Call("Relay_Analysis", <<RelayCmd(bin[1])>>, "Bluetooth_Mode")>>]

\* handleBleAuth17or34 from sysUtcSecondsNow() to its end
AuthRest(rec, bin, clock, held) ==
  LET now   == sysUtcSecondsNow(clock)
      epoch == EpochOf(bin)
      mac   == FullMac(AuthMsg(bin))
      cmp   == CompareFrom(mac, bin, 0, 0)
      r1    == [rec EXCEPT !.now = now, !.trace = @ \o <<"time">>, !.held = @ /\ held]
  IN  IF ~FreshnessPass(now, epoch)
      THEN [r1 EXCEPT !.result = "StaleOrFutureTimestamp"]
      ELSE IF cmp.mismatch # 0
      THEN [r1 EXCEPT !.result = "TagMismatch", !.cmpSteps = cmp.steps,
                      !.trace = @ \o <<"hmac", "compare">>]
      ELSE [r1 EXCEPT !.result = "Accepted", !.cmpSteps = cmp.steps,
                      !.trace = @ \o <<"hmac", "compare", "Relay_Analysis">>,
                      !.calls = @ \o <<Call("Relay_Analysis", <<RelayCmd(bin[1])>>, "Bluetooth_Mode")>>]

\* the frames 2 and 14 bytes long: the calls of the branches entered
PlainCalls(raw, route) ==
  (IF "ble2" \in route THEN handleBle2Byte(raw, Extension_Enable) ELSE <<>>)
    \o (IF "rtc14" \in route THEN handleBleRtc14(raw, RTC_Event_Enable) ELSE <<>>)

\* onWrite for one frame; a 17 or 34 byte frame that passed the clock trust test
\* stops before its second clock read
OnWrite(raw) ==
  /\ blePc = "idle"
  /\ LET route == Route(Len(raw))
         plain == PlainCalls(raw, route)
         auth  == IF "auth" \in route THEN AuthEnter(raw, wallClock, acq.okSince)
                  ELSE [NoLast EXCEPT !.raw = raw,
                                      !.result = IF "reject" \in route THEN "Unsupported"
                                                 ELSE IF plain = <<>> THEN "Dropped"
                                                 ELSE "Forwarded"]
         rec   == [auth EXCEPT !.route = route, !.calls = plain \o @]
     IN  /\ last' = rec
         /\ IF rec.result = "pending"
            THEN /\ blePc' = "auth"
                 /\ rxValue' = raw
                 /\ bin17' = normalizeAuthPayload(raw).out17
            ELSE /\ blePc' = "idle"
                 /\ rxValue' = <<>>
                 /\ bin17' = <<>>
  /\ UNCHANGED <<wallClock, acq, captured, macCache>>
  /\ UNCHANGED <<acqVars, flagVars, gateVars>>

\* the rest of onWrite for a 17 or 34 byte frame, then setValue("")
AuthFinish ==
  /\ blePc = "auth"
  /\ last' = AuthRest(last, bin17, wallClock, acq.okSince)
  /\ blePc' = "idle"
  /\ rxValue' = <<>>
  /\ bin17' = <<>>
  /\ UNCHANGED <<wallClock, acq, captured, macCache>>
  /\ UNCHANGED <<acqVars, flagVars, gateVars>>

\* an observer keeps the first frame it sees accepted
Capture ==
  /\ captured = NoCapture
  /\ blePc = "idle"
  /\ last.result = "Accepted"
  /\ captured' = [raw |-> last.raw, now |-> last.now]
  /\ UNCHANGED <<wallClock, acq, macCache>>
  /\ UNCHANGED <<acqVars, flagVars, bleVars, gateVars>>

(* ---------------- specifications --------------------------------------- *)

\* time acquisition, clock updates and frame dispatch, interleaved
Next ==
  \/ AcqCall
  \/ AcqSuccess
  \/ AcqSleep
  \/ AcqTimeout
  \/ \E v \in CoreClock : ClockUpdate(v)
  \/ \E f \in CoreFrames : OnWrite(f)
  \/ AuthFinish

Spec == Init /\ [][Next]_vars

\* the state after the first Acquisition_time call has timed out
AfterTimeout ==
  /\ wallClock = 0
  /\ sntp_initialized = TRUE
  /\ sntpStarts = 1
  /\ tz = "UTC0"
  /\ acqPc = "idle"
  /\ start = NoTick
  /\ ms = NoTick
  /\ datetime = NoTime
  /\ rtc = NoTime
  /\ rtcWrites = 0
  /\ acq = [NoAcq EXCEPT !.calls = 1, !.falseReturns = 1, !.ret = "false",
                         !.budgetUsed = timeoutMs]
  /\ blePc = "idle"
  /\ rxValue = InitialRxValue
  /\ bin17 = <<>>
  /\ last = NoLast
  /\ captured = NoCapture
  /\ macCache = MacTable

InitDispatch ==
  /\ AfterTimeout
  /\ GateIdle
  /\ Extension_Enable \in BOOLEAN
  /\ RTC_Event_Enable \in BOOLEAN

\* every frame shape under every flag setting, with the clock moving under it
NextDispatch ==
  \/ \E v \in ClockValues : ClockUpdate(v)
  \/ \E f \in AllFrames : OnWrite(f)
  \/ AuthFinish

SpecDispatch == InitDispatch /\ [][NextDispatch]_vars

\* replay of one recorded frame while the clock moves
ReplayFrames == {F_Good, F_HexLower}

InitReplay ==
  /\ AfterTimeout
  /\ GateIdle
  /\ Extension_Enable = TRUE
  /\ RTC_Event_Enable = TRUE

NextReplay ==
  \/ \E v \in ClockValues : ClockUpdate(v)
  \/ \E f \in ReplayFrames : OnWrite(f)
  \/ AuthFinish
  \/ Capture

SpecReplay == InitReplay /\ [][NextReplay]_vars

\* clock readings and epochs for the freshness gate taken alone: around 0, around
\* the vector epoch, across a carry between the halves, around 2^31 and up to 2^32 - 1
GateValues ==
  {<<0, 0>>, <<0, 50>>, <<0, 120>>, <<0, 121>>, <<0, 65476>>, <<1, 60>>, <<1, 61>>,
   ToU32(VectorEpoch - FreshWindow - 1), ToU32(VectorEpoch - FreshWindow), ToU32(VectorEpoch),
   ToU32(VectorEpoch + FreshWindow), ToU32(VectorEpoch + FreshWindow + 1),
   <<32767, 65535>>, <<32768, 0>>, <<32768, 119>>, <<32768, 120>>,
   <<65535, 65414>>, <<65535, 65415>>, <<65535, 65485>>, <<65535, 65535>>}

InitFresh ==
  /\ Boot
  /\ Extension_Enable = TRUE
  /\ RTC_Event_Enable = TRUE
  /\ gNow \in GateValues
  /\ gEpoch \in GateValues
  /\ gPass = "unset"

\* lines 203 and 208 applied to one pair
GateCheck ==
  /\ gPass = "unset"
  /\ gPass' = IF FreshnessPass(gNow, gEpoch) THEN "pass" ELSE "fail"
  /\ UNCHANGED <<gNow, gEpoch, wallClock, acq, captured, macCache>>
  /\ UNCHANGED <<acqVars, flagVars, bleVars>>

NextFresh == GateCheck

SpecFresh == InitFresh /\ [][NextFresh]_vars

\* records for the normalizer: each has every nibble value 0..15 in a high and in
\* a low position, at places that move with k
PatternRecord(k) == [i \in 1..17 |-> 16 * ((i + k) % 16) + ((7 * i + k) % 16)]

NormRecords ==
  {PatternRecord(k) : k \in 0..15} \cup {[i \in 1..17 |-> 0], [i \in 1..17 |-> 255], F_Good}

\* the five forms a sender can give a record: binary, and 34 hex characters in
\* upper, lower and mixed case
Encodings(rec) == {rec} \cup {HexEncode(rec, hiUp, loUp) : hiUp \in BOOLEAN, loUp \in BOOLEAN}

\* the characters next to '0'..'9', 'A'..'F', 'a'..'f', and NUL, space, 0xFF
BadChars == {0, 32, 47, 58, 64, 71, 96, 103, 255}

\* the lower-case hex form of the good frame with character c at position p
BadHex(p, c) == [F_HexLower EXCEPT ![p] = c]

DecodeFrames ==
  UNION {Encodings(rec) : rec \in NormRecords}
    \cup {BadHex(p, c) : p \in 1..34, c \in BadChars}
    \cup {<<>>, SubSeq(F_Good, 1, 16), F_Good \o <<0>>, SubSeq(F_HexUpper, 1, 33),
          F_HexUpper \o <<48>>}

InitDecode ==
  /\ AfterTimeout
  /\ GateIdle
  /\ Extension_Enable = TRUE
  /\ RTC_Event_Enable = TRUE

\* records in every form and malformed frames, before and after SNTP has set the clock
NextDecode ==
  \/ ClockUpdate(VectorEpoch)
  \/ \E f \in DecodeFrames : OnWrite(f)
  \/ AuthFinish

SpecDecode == InitDecode /\ [][NextDecode]_vars

\* 1739990000 = 67 B6 23 F0, the epoch the spec's test vector names
StatedEpoch == BytesToInt(<<103, 182, 35, 240>>)

VectorFrames == {F_Good, F_GoodCh2, F_TagAA, F_Bad0, F_Bad11, F_HexUpper}

VectorClock == {VectorEpoch - FreshWindow, VectorEpoch, StatedEpoch - FreshWindow, StatedEpoch}

InitVector ==
  /\ AfterTimeout
  /\ GateIdle
  /\ Extension_Enable = TRUE
  /\ RTC_Event_Enable = TRUE

\* the test vector's frames at the clock readings of its two epochs
NextVector ==
  \/ \E v \in VectorClock : ClockUpdate(v)
  \/ \E f \in VectorFrames : OnWrite(f)
  \/ AuthFinish

SpecVector == InitVector /\ [][NextVector]_vars

\* one pass of the polling loop, or its exit
AcqStep == AcqSuccess \/ AcqSleep \/ AcqTimeout

\* the task that runs onEvent keeps running and millis() keeps counting: a call in
\* progress takes its next step
SpecLive == Spec /\ WF_vars(AcqStep)

\* one frame sent again among other traffic
HistoryFrames == {F_Good, F_HexLower, F_TagAA, F_Rs485, F_Rs485BadOp, F_Rtc14, <<6>>}

NextHistory ==
  \/ \E v \in ClockValues : ClockUpdate(v)
  \/ \E f \in HistoryFrames : OnWrite(f)
  \/ AuthFinish
  \/ Capture

SpecHistory == InitReplay /\ [][NextHistory]_vars

\* millis() at the entry of a call: at and after boot, across the carry between the
\* halves, around 2^31, and 20001, 20000, 19999, 10000, 500 and 1 ms before the
\* tick counter wraps to 0
BudgetStarts ==
  {<<0, 0>>, <<0, 3000>>, <<0, 65036>>, <<32767, 65535>>, <<65535, 45535>>, <<65535, 45536>>,
   <<65535, 45537>>, <<65535, 55536>>, <<65535, 65036>>, <<65535, 65535>>}

\* the clock before SNTP has answered, counting on from 0; at the sanity threshold;
\* past it
BudgetClock == {1, SanityEpoch, GapEpoch}

\* the first Acquisition_time call has just taken start = millis()
InitBudget ==
  /\ wallClock = 0
  /\ sntp_initialized = TRUE
  /\ sntpStarts = 1
  /\ tz = "UTC0"
  /\ acqPc = "loop"
  /\ start \in BudgetStarts
  /\ ms = start
  /\ datetime = NoTime
  /\ rtc = NoTime
  /\ rtcWrites = 0
  /\ acq = [NoAcq EXCEPT !.calls = 1]
  /\ blePc = "idle"
  /\ rxValue = InitialRxValue
  /\ bin17 = <<>>
  /\ last = NoLast
  /\ captured = NoCapture
  /\ macCache = MacTable
  /\ GateIdle
  /\ Extension_Enable = TRUE
  /\ RTC_Event_Enable = TRUE

NextBudget ==
  \/ AcqCall
  \/ AcqSuccess
  \/ AcqSleep
  \/ AcqTimeout
  \/ \E v \in BudgetClock : ClockUpdate(v)

SpecBudget == InitBudget /\ [][NextBudget]_vars

(* ---------------- properties ------------------------------------------- *)

\* max(a, b) - min(a, b) <= w for two 32-bit values, without any subtraction
\* modulo 2^32
AbsDiffLe(a, b, w) ==
  LET big   == IF U32Gt(a, b) THEN a ELSE b
      small == IF U32Gt(a, b) THEN b ELSE a
  IN  /\ big[1] - small[1] <= 1
      /\ (big[1] - small[1]) * Half + big[2] - small[2] <= w

\* first 12 bytes of HMAC-SHA256(SECRET_KEY, channel and epoch bytes of rec)
ExpectedTag(rec) ==
  SubSeq((CHOOSE p \in macCache : p[1] = <<rec[1], rec[2], rec[3], rec[4], rec[5]>>)[2], 1, 12)

CallsOf(rec, fn) == {i \in 1..Len(rec.calls) : rec.calls[i].fn = fn}

\* the external handlers a frame reached
HandlerCalls(rec) ==
  {i \in 1..Len(rec.calls) :
     rec.calls[i].fn \in {"RS485_Analysis", "BLE_Set_RTC_Event", "Relay_Analysis"}}

Events(rec) == {rec.trace[i] : i \in 1..Len(rec.trace)}

\* onWrite has returned for the frame in last
Handled == blePc = "idle" /\ last.result # "none"

\* the four conditions of C1 for the frame in last
AuthConditions ==
  LET norm == normalizeAuthPayload(last.raw)
  IN  /\ norm.ok
      /\ last.trustClock > 1700000000
      /\ last.now # NoU32
      /\ AbsDiffLe(last.now, EpochOf(norm.out17), 120)
      /\ \A i \in 1..12 : norm.out17[5 + i] = ExpectedTag(norm.out17)[i]

\* C1: a handled frame of length 17 or 34 reaches Relay_Analysis (origin
\* Bluetooth_Mode) exactly once when normalization succeeds, the clock trust check
\* passes, |now - epoch| <= 120 and the 12 tag bytes equal the expected digest's
\* first 12 bytes, and not at all when any of these fails.
C1_ActuationIffAuthentic ==
  (Handled /\ Len(last.raw) \in {17, 34}) =>
     /\ Cardinality(CallsOf(last, "Relay_Analysis")) = (IF AuthConditions THEN 1 ELSE 0)
     /\ \A i \in CallsOf(last, "Relay_Analysis") : last.calls[i].mode = "Bluetooth_Mode"
     /\ Len(last.calls) = Cardinality(CallsOf(last, "Relay_Analysis"))

C1_Witness ==
  /\ Handled
  /\ last.raw = F_HexMixed
  /\ AuthConditions
  /\ last.calls = <<Call("Relay_Analysis", <<49>>, "Bluetooth_Mode")>>

\* C2: when the trust check of a 17/34-byte frame finds the clock untrusted (not
\* above 1700000000), the frame fails with ClockUntrusted and nothing is actuated,
\* whatever its channel, epoch and tag, a correct tag included.
C2_ClockGating ==
  (Handled /\ "auth" \in last.route /\ last.normOk /\ ~(last.trustClock > 1700000000)) =>
     /\ last.result = "ClockUntrusted"
     /\ last.calls = <<>>
     /\ Events(last) \cap {"hmac", "compare", "Relay_Analysis"} = {}

C2_Witness ==
  /\ Handled
  /\ last.raw = F_GoodGap
  /\ last.trustClock = GapEpoch
  /\ ExpectedTag(last.raw) = SubSeq(last.raw, 6, 17)
  /\ last.result = "ClockUntrusted"

C4_FreshnessBoundary ==
  gPass # "unset" => (gPass = "pass" <=> AbsDiffLe(gNow, gEpoch, 120))

C4_Witness ==
  /\ gPass = "fail"
  /\ gNow = <<65535, 65485>>
  /\ gEpoch = <<0, 50>>

\* C5 as stated: one frame accepted at clock reading t1 and again at a later
\* reading t2 has t2 - t1 <= 120.
C5_ReplayWithin120 ==
  (captured # NoCapture /\ last.result = "Accepted" /\ last.raw = captured.raw
     /\ U32Gt(last.now, captured.now)) => AbsDiffLe(last.now, captured.now, 120)

\* C5 amended: one frame accepted at clock reading t1 and again at a later reading
\* t2 has t2 - t1 <= 240: both readings lie within 120 s of the frame's epoch.
C5_ReplayWithin240 ==
  (captured # NoCapture /\ last.result = "Accepted" /\ last.raw = captured.raw
     /\ U32Gt(last.now, captured.now)) => AbsDiffLe(last.now, captured.now, 240)

C5_Witness ==
  /\ captured = [raw |-> F_Good, now |-> ToU32(VectorEpoch - 120)]
  /\ last.result = "Accepted"
  /\ last.raw = F_Good
  /\ last.now = ToU32(VectorEpoch + 120)

\* C6: whenever the tag comparison runs it examines all 12 byte positions and
\* decides after the last one, whether the tags match, differ in byte 0 or differ
\* only in byte 11.
C6_CompareAllTwelve ==
  (Handled /\ "compare" \in Events(last)) =>
     /\ last.cmpSteps = 12
     /\ last.result \in {"Accepted", "TagMismatch"}
     /\ (last.result = "Accepted" <=> SubSeq(normalizeAuthPayload(last.raw).out17, 6, 17)
                                        = ExpectedTag(normalizeAuthPayload(last.raw).out17))

C6_Witness ==
  /\ Handled
  /\ last.raw = F_Bad0
  /\ last.result = "TagMismatch"
  /\ last.cmpSteps = 12

\* the route the claim gives each length
ClaimedRoute(len) ==
  CASE len = 2 -> "ble2"
    [] len = 14 -> "rtc14"
    [] len \in {17, 34} -> "auth"
    [] OTHER -> "reject"

\* C7: every frame takes exactly one route, the one its length selects (2, 14,
\* 17 or 34, anything else), and reaches at most one of the external handlers.
C7_DispatchExclusive ==
  last.result # "none" =>
     /\ last.route = {ClaimedRoute(Len(last.raw))}
     /\ Cardinality(HandlerCalls(last)) <= 1
     /\ \A i \in HandlerCalls(last) :
          last.calls[i].fn = (CASE ClaimedRoute(Len(last.raw)) = "ble2" -> "RS485_Analysis"
                                [] ClaimedRoute(Len(last.raw)) = "rtc14" -> "BLE_Set_RTC_Event"
                                [] OTHER -> "Relay_Analysis")
     /\ ClaimedRoute(Len(last.raw)) = "reject" => (last.calls = <<>> /\ last.result = "Unsupported")

C7_Witness ==
  /\ Handled
  /\ Len(last.raw) = 18
  /\ last.route = {"reject"}
  /\ last.calls = <<>>

\* C8: a 2-byte frame received while Extension_Enable is false never reaches
\* RS485_Analysis, a 14-byte frame received while RTC_Event_Enable is false never
\* reaches BLE_Set_RTC_Event; the frame is dropped and no call is made.
C8_DisabledRouteDrops ==
  /\ (Handled /\ Len(last.raw) = 2 /\ ~Extension_Enable) =>
        (last.calls = <<>> /\ last.result = "Dropped" /\ rxValue = <<>>)
  /\ (Handled /\ Len(last.raw) = 14 /\ ~RTC_Event_Enable) =>
        (last.calls = <<>> /\ last.result = "Dropped" /\ rxValue = <<>>)

C8_Witness ==
  /\ Handled
  /\ last.raw = F_Rs485
  /\ ~Extension_Enable
  /\ last.result = "Dropped"

\* C9 as stated: from a true return of Acquisition_time on, while the wall clock
\* does not move backwards, the trust check reports trusted, and a frame with a
\* fresh epoch and a correct tag dispatched then is accepted.
C9_SuccessEstablishesTrust ==
  /\ acq.okSince => wallClock > 1700000000
  /\ (Handled /\ last.held /\ last.normOk
        /\ ExpectedTag(normalizeAuthPayload(last.raw).out17)
             = SubSeq(normalizeAuthPayload(last.raw).out17, 6, 17)
        /\ AbsDiffLe(ToU32(last.trustClock), EpochOf(normalizeAuthPayload(last.raw).out17), 120)
        /\ (last.now # NoU32 =>
              AbsDiffLe(last.now, EpochOf(normalizeAuthPayload(last.raw).out17), 120)))
     => last.result = "Accepted"

\* C10: a call of Acquisition_time during which the wall clock never exceeded
\* 1609459200 returns false, leaves the RTC unwritten and leaves the trust state
\* as it found it.
C10_TimeoutLeavesMirror ==
  (acqPc = "idle" /\ acq.ret # "none" /\ ~acq.everAbove) =>
     /\ acq.ret = "false"
     /\ rtcWrites = acq.writesAtStart
     /\ acq.trustAtReturn = acq.trustAtStart
     /\ (acq.trueReturns = 0 => rtc = NoTime /\ datetime = NoTime)

C10_Witness ==
  /\ acqPc = "idle"
  /\ acq.ret = "false"
  /\ ~acq.everAbove
  /\ wallClock = SanityEpoch
  /\ rtcWrites = 0

\* C11 as stated: a call of Acquisition_time during which the wall clock was
\* above 1609459200 at some moment before the budget ran out, the last delay(500)
\* included, returns true and writes the RTC exactly once.
C11_AdvanceMeansSuccess ==
  (acqPc = "idle" /\ acq.ret # "none" /\ acq.everAbove) =>
     /\ acq.ret = "true"
     /\ rtcWrites = acq.writesAtStart + 1

\* C12: the number of RTC writes equals the number of Acquisition_time calls that
\* returned true: a successful call writes once, a timed-out call does not write,
\* also when SNTP sets the clock after it returned, and no frame dispatch writes.
C12_WritesEqualSuccesses ==
  /\ rtcWrites = acq.trueReturns
  /\ (rtcWrites = 0 <=> rtc = NoTime)
  /\ datetime = rtc

C12_Witness ==
  /\ acq.falseReturns = 1
  /\ acq.trueReturns = 1
  /\ rtcWrites = 1
  /\ rtc = Gmtime(VectorEpoch)
  /\ last.result = "Accepted"
  /\ blePc = "idle"

\* C13: configTime is called exactly once, by the first Acquisition_time call;
\* after any number of further calls, following a success or a timeout, the count
\* is still 1, and a later call can return true on the clock SNTP has set since.
C13_SntpStartedOnce ==
  /\ sntpStarts = (IF acq.calls = 0 THEN 0 ELSE 1)
  /\ sntp_initialized = (acq.calls > 0)
  /\ (acq.calls > 0 => tz = "UTC0")

C13_Witness ==
  /\ acq.calls = 2
  /\ acq.falseReturns = 1
  /\ acq.ret = "true"
  /\ sntpStarts = 1

\* C14: normalizing a 17-byte record returns the record, and normalizing its
\* 34-character hex form returns a record byte-equal to it, with the digits in
\* upper case, in lower case or mixed.
C14_NormalizeRoundTrip ==
  \A rec \in NormRecords :
    (last.result # "none" /\ last.raw \in Encodings(rec)) =>
       /\ last.normOk
       /\ normalizeAuthPayload(last.raw) = [ok |-> TRUE, out17 |-> rec]
       /\ (blePc = "auth" => bin17 = rec)

C14_Witness ==
  /\ blePc = "auth"
  /\ last.raw = HexEncode(PatternRecord(3), FALSE, TRUE)
  /\ bin17 = PatternRecord(3)

\* a character outside 0-9, A-F, a-f
NonHex(c) == c \notin ((48..57) \cup (65..70) \cup (97..102))

\* C15: a 34-byte frame with a character outside 0-9, A-F, a-f at any position
\* fails normalization and is dropped before any clock read, digest or actuation;
\* a frame whose length is neither 17 nor 34 does not reach the normalizer.
C15_BadHexRejected ==
  /\ (last.result # "none" /\ Len(last.raw) = 34 /\ \E p \in 1..34 : NonHex(last.raw[p])) =>
        /\ last.result = "DecodeError"
        /\ ~last.normOk
        /\ last.trace = <<"normalize">>
        /\ last.trustClock = -1
        /\ last.now = NoU32
        /\ last.calls = <<>>
        /\ blePc = "idle"
  /\ (last.result # "none" /\ Len(last.raw) \notin {17, 34}) =>
        /\ "normalize" \notin Events(last)
        /\ "auth" \notin last.route
        /\ last.calls = <<>>

C15_Witness ==
  /\ Handled
  /\ last.raw = BadHex(34, 103)
  /\ wallClock = VectorEpoch
  /\ last.result = "DecodeError"

\* C16 as stated: the record of channel 1 with message 01 67 B5 A2 30 and twelve
\* 0xAA tag bytes carries epoch 1739990000, so at a trusted clock reading of
\* 1739990000 it passes the freshness gate and is rejected with a tag mismatch.
C16_VectorAsStated ==
  (Handled /\ last.raw = F_TagAA /\ last.trustClock > 1700000000
     /\ last.now = ToU32(1739990000)) =>
       /\ EpochOf(last.raw) = ToU32(1739990000)
       /\ last.result = "TagMismatch"

\* C16 amended: the expected tag is the first 12 bytes of HMAC-SHA256 under the
\* 13-byte key key-fsa-relay over the channel byte and the 4 epoch bytes as they
\* stand in the record; the message 01 67 B5 A2 30 is channel 1 with epoch
\* 1739956784, and its record with twelve 0xAA tag bytes, fresh at a trusted
\* clock, is rejected with a tag mismatch.
C16_HmacVector ==
  /\ SECRET_KEY = <<107, 101, 121, 45, 102, 115, 97, 45, 114, 101, 108, 97, 121>>
  /\ SECRET_LEN = 13
  /\ macCache = MacComputed
  /\ (Handled /\ "hmac" \in Events(last)) =>
        LET bin == normalizeAuthPayload(last.raw).out17
            tag == SubSeq(HmacSha256(SECRET_KEY, SubSeq(bin, 1, 5)), 1, 12)
        IN  /\ last.result = (IF SubSeq(bin, 6, 17) = tag THEN "Accepted" ELSE "TagMismatch")
            /\ (bin = F_Good => last.result = "Accepted")
  /\ (Handled /\ last.raw = F_TagAA /\ last.trustClock > 1700000000
        /\ AbsDiffLe(last.now, ToU32(1739956784), 120)) =>
          /\ EpochOf(last.raw) = ToU32(1739956784)
          /\ last.result = "TagMismatch"

C16_Witness ==
  /\ Handled
  /\ last.raw = F_TagAA
  /\ last.now = ToU32(VectorEpoch)
  /\ last.result = "TagMismatch"

\* the steps of handleBleAuth17or34 in the order of the code
GateOrder == <<"normalize", "time", "time", "hmac", "compare", "Relay_Analysis">>

\* C17: the gates run in a fixed order and each one ends the handling when it
\* fails: the clock trust check comes before the clock read of the freshness
\* check, the freshness check before the digest, and no digest is computed for a
\* frame that failed the trust check or the freshness check.
C17_GateOrder ==
  ("auth" \in last.route /\ last.result # "none") =>
     /\ Len(last.trace) <= Len(GateOrder)
     /\ last.trace = SubSeq(GateOrder, 1, Len(last.trace))
     /\ (blePc = "auth" => (last.trace = <<"normalize", "time">> /\ last.now = NoU32
                              /\ last.trustClock > 1700000000))
     /\ (last.result = "ClockUntrusted" =>
           (last.trace = <<"normalize", "time">> /\ last.now = NoU32))
     /\ (last.result = "StaleOrFutureTimestamp" => last.trace = <<"normalize", "time", "time">>)
     /\ ("hmac" \in Events(last) =>
           /\ last.trustClock > 1700000000
           /\ AbsDiffLe(last.now, EpochOf(normalizeAuthPayload(last.raw).out17), 120))

C17_Witness ==
  /\ Handled
  /\ last.raw = F_Good
  /\ last.result = "StaleOrFutureTimestamp"
  /\ last.trace = <<"normalize", "time", "time">>

\* C18: while millis() keeps advancing, every Acquisition_time call in progress
\* eventually returns, with true or with false, whatever the wall clock does.
C18_CallTerminates ==
  (acqPc # "idle") ~> (acqPc = "idle" /\ acq.ret \in {"true", "false"})

C18_Witness ==
  /\ acqPc = "idle"
  /\ acq.calls = 2
  /\ acq.falseReturns = 2
  /\ acq.ret = "false"
  /\ wallClock = SanityEpoch

\* what the frame bytes, the flags and the two clock readings alone give
Outcome(raw, extensionEnable, rtcEventEnable, trustClock, now) ==
  LET norm == normalizeAuthPayload(raw)
  IN  CASE Len(raw) = 2 -> IF extensionEnable /\ raw[1] = 6 THEN "Forwarded" ELSE "Dropped"
        [] Len(raw) = 14 -> IF rtcEventEnable THEN "Forwarded" ELSE "Dropped"
        [] Len(raw) \in {17, 34} ->
             IF ~norm.ok THEN "DecodeError"
             ELSE IF ~(trustClock > 1700000000) THEN "ClockUntrusted"
             ELSE IF ~AbsDiffLe(now, EpochOf(norm.out17), 120) THEN "StaleOrFutureTimestamp"
             ELSE IF SubSeq(norm.out17, 6, 17) # ExpectedTag(norm.out17) THEN "TagMismatch"
             ELSE "Accepted"
        [] OTHER -> "Unsupported"

\* C19: a frame accepted once and dispatched again, byte for byte, while the
\* trusted clock is within 120 s of its epoch is accepted again and Relay_Analysis
\* is called again; the outcome of a dispatch is given by the frame bytes, the
\* flags and the clock readings of that dispatch, not by earlier frames.
C19_NoReplayState ==
  Handled =>
     /\ last.result = Outcome(last.raw, Extension_Enable, RTC_Event_Enable,
                              last.trustClock, last.now)
     /\ (captured # NoCapture /\ last.raw = captured.raw /\ last.trustClock > 1700000000
           /\ AbsDiffLe(last.now, EpochOf(normalizeAuthPayload(last.raw).out17), 120)) =>
          /\ last.result = "Accepted"
          /\ Cardinality(CallsOf(last, "Relay_Analysis")) = 1

C19_Witness ==
  /\ Handled
  /\ captured = [raw |-> F_HexLower, now |-> ToU32(VectorEpoch)]
  /\ last.raw = F_HexLower
  /\ last.now = ToU32(VectorEpoch + FreshWindow)
  /\ last.result = "Accepted"
  /\ last.calls = <<Call("Relay_Analysis", <<49>>, "Bluetooth_Mode")>>

\* C20 as stated: every 2-byte frame received while Extension_Enable is true is
\* handed to RS485_Analysis, whatever its two bytes are.
C20_FlagIsOnlyPrecondition ==
  (Handled /\ Len(last.raw) = 2 /\ Extension_Enable) =>
     last.calls = <<Call("RS485_Analysis", last.raw, "")>>

\* C20 amended: a 2-byte frame received while Extension_Enable is true is handed
\* to RS485_Analysis exactly when its first byte is 0x06; with another first
\* byte it is dropped.
C20_FlagAndOpcode ==
  (Handled /\ Len(last.raw) = 2 /\ Extension_Enable) =>
     /\ (last.raw[1] = 6 =>
           (last.calls = <<Call("RS485_Analysis", last.raw, "")>> /\ last.result = "Forwarded"))
     /\ (last.raw[1] # 6 => (last.calls = <<>> /\ last.result = "Dropped"))

C20_Witness ==
  /\ Handled
  /\ last.raw = F_Rs485BadOp
  /\ Extension_Enable
  /\ last.calls = <<>>
  /\ last.result = "Dropped"

\* timegm: the seconds since the epoch of a calendar record
Timegm(t) ==
  LET y    == IF t.month <= 2 THEN t.year - 1 ELSE t.year
      era  == y \div 400
      yoe  == y - era * 400
      mp   == IF t.month > 2 THEN t.month - 3 ELSE t.month + 9
      doy  == ((153 * mp + 2) \div 5) + t.day - 1
      doe  == yoe * 365 + (yoe \div 4) - (yoe \div 100) + doy
      days == era * 146097 + doe - 719468
  IN  days * 86400 + t.hour * 3600 + t.minute * 60 + t.second

\* C21: every write of the RTC and of datetime happens in a step whose clock
\* sample exceeds 1609459200, and writes to both the calendar fields of that same
\* sample: valid fields which compose back to the sample, weekday included.
C21_MirrorFromCheckedSample ==
  [][(rtcWrites' # rtcWrites \/ rtc' # rtc \/ datetime' # datetime) =>
       /\ wallClock > SanityEpoch
       /\ rtcWrites' = rtcWrites + 1
       /\ rtc' = Gmtime(wallClock)
       /\ datetime' = rtc'
       /\ rtc'.month \in 1..12 /\ rtc'.day \in 1..31 /\ rtc'.dotw \in 0..6
       /\ rtc'.hour \in 0..23 /\ rtc'.minute \in 0..59 /\ rtc'.second \in 0..59
       /\ Timegm(rtc') = wallClock
       /\ rtc'.dotw = ((wallClock \div 86400) + 4) % 7]_vars

C21_Witness ==
  /\ acq.ret = "true"
  /\ rtcWrites = 1
  /\ rtc = [year |-> 2022, month |-> 4, day |-> 15, dotw |-> 5,
            hour |-> 5, minute |-> 20, second |-> 0]
  /\ datetime = rtc
  /\ wallClock = SanityEpoch

\* C22 as stated: for every accepted frame, the clock value the freshness
\* comparison used (the second read, sysUtcSecondsNow) is above 1700000000, also
\* when the clock is changed between the trust check's read and that read.
C22_FreshnessClockTrusted ==
  (Handled /\ last.result = "Accepted") =>
     /\ last.trustClock > TrustEpoch
     /\ U32Gt(last.now, ToU32(TrustEpoch))

\* C23: the loop test millis() - start < 20000, taken modulo 2^32, passes exactly
\* while less than 20000 ms of delay lie behind the call, whatever start was, a
\* start less than 20000 ms before the tick counter wraps included: the elapsed
\* ticks equal the time slept, the call never sleeps past 20000 ms, every false
\* return comes after exactly 20000 ms, and a call whose clock never exceeded
\* 1609459200 returns false.
C23_BudgetAcrossWrap ==
  /\ (acqPc # "idle" =>
        /\ U32Sub(Woke, start) = ToU32(DelayMs * acq.polls)
        /\ DelayMs * acq.polls <= timeoutMs
        /\ (BudgetLeft(Woke, start) <=> DelayMs * acq.polls < timeoutMs))
  /\ (acq.falseReturns > 0 => acq.budgetUsed = timeoutMs)
  /\ ((acqPc = "idle" /\ acq.ret # "none" /\ ~acq.everAbove) =>
        /\ acq.ret = "false"
        /\ acq.budgetUsed = timeoutMs)

C23_Witness ==
  /\ acqPc = "delay"
  /\ start = <<65535, 55536>>
  /\ ms = <<0, 9500>>
  /\ acq.polls * DelayMs = timeoutMs
  /\ ~BudgetLeft(Woke, start)
  /\ ~acq.everAbove
  /\ wallClock = SanityEpoch

====
